---- MODULE Spec2Model ----
(***************************************************************************)
(* Model of the entitlements checker of kdex-tech/entitlements             *)
(* (src/entitlements/entitlements.go).                                     *)
(*                                                                         *)
(* A Go string is a sequence of tokens: the separator ":" and indivisible  *)
(* colon-free words ("*", "all", "read", ...).  No word is a prefix of     *)
(* another, so two token sequences are equal exactly when the Go strings   *)
(* they spell are equal.  The empty string is the empty sequence.          *)
(***************************************************************************)
EXTENDS Integers, Sequences, FiniteSets, TLC

VARIABLES ec, heap, entitlements, requirements, resource, resourceName,
          entitlement, requirement, op, outcome, result, working, calls

vars == <<ec, heap, entitlements, requirements, resource, resourceName,
          entitlement, requirement, op, outcome, result, working, calls>>

----------------------------------------------------------------------------
(* Strings *)

COLON == ":"
EMPTY == <<>>
STAR  == <<"*">>
ALL   == <<"all">>
READ  == <<"read">>

\* strings.Split(s, ":") -- the fields between the separators, in order;
\* always at least one field.
RECURSIVE SplitFrom(_, _, _, _)
SplitFrom(s, i, cur, acc) ==
    IF i > Len(s) THEN Append(acc, cur)
    ELSE IF s[i] = COLON THEN SplitFrom(s, i + 1, EMPTY, Append(acc, cur))
    ELSE SplitFrom(s, i + 1, Append(cur, s[i]), acc)

Split(s) == SplitFrom(s, 1, EMPTY, <<>>)

\* fmt.Sprintf("%s:%s:read", resource, resourceName)
Sprintf(res, name) == res \o <<COLON>> \o name \o <<COLON>> \o READ

canonicalParts_NoExpand(split) == split

\* A two-field split <resource>:<verb> is read as <resource>::<verb>.
canonicalParts(split) ==
    IF Len(split) = 2 THEN <<split[1], EMPTY, split[2]>> ELSE split

sameStructure_AtLeast(parts, requiredParts) ==
    Len(parts) >= 3 /\ Len(requiredParts) >= 3

\* Both sides must have the structure resource:resourceName:verb.
sameStructure(parts, requiredParts) ==
    ~(Len(parts) # 3 \/ Len(requiredParts) # 3)

resourceTypeMatches_SelfCompare(parts, requiredParts) ==
    ~(parts[1] # parts[1])

\* Resource type must match.
resourceTypeMatches(parts, requiredParts) ==
    ~(parts[1] # requiredParts[1])

verbMatches_Symmetric(parts, requiredParts) ==
    ~(parts[3] # ALL /\ requiredParts[3] # ALL /\ parts[3] # requiredParts[3])

\* Verb must match; a held verb "all" covers every required verb.
verbMatches(parts, requiredParts) ==
    ~(parts[3] # ALL /\ parts[3] # requiredParts[3])

resourceNameMatches_HeldOnly(parts, requiredParts) ==
    IF parts[2] = EMPTY \/ parts[2] = STAR THEN TRUE
    ELSE parts[2] = requiredParts[2]

\* Resource name with wildcard support on either side.
resourceNameMatches(parts, requiredParts) ==
    IF parts[2] = EMPTY \/ parts[2] = STAR THEN TRUE
    ELSE IF requiredParts[2] = EMPTY \/ requiredParts[2] = STAR THEN TRUE
    ELSE parts[2] = requiredParts[2]

\* entitlementMatches: does a held entitlement match a required one.
entitlementMatches(held, required) ==
    IF held = required THEN TRUE
    ELSE
      LET parts == canonicalParts(Split(held))
          requiredParts == canonicalParts(Split(required))
      IN  IF ~sameStructure(parts, requiredParts) THEN FALSE
          ELSE IF ~resourceTypeMatches(parts, requiredParts) THEN FALSE
          ELSE IF ~verbMatches(parts, requiredParts) THEN FALSE
          ELSE resourceNameMatches(parts, requiredParts)

----------------------------------------------------------------------------
(* Go memory: maps are references, slices are (array, len, cap) views of   *)
(* a backing array.  Memory is a sequence of cells, an address is an index *)
(* into it, address 0 is nil.                                              *)

Schemes == {"bearer", "other"}

NilSlice == [arr |-> 0, len |-> 0, cap |-> 0]
Absent   == [present |-> FALSE, sl |-> NilSlice]
NoMap    == [k \in Schemes |-> Absent]

MapCell(m)  == [kind |-> "map",  m |-> m,     a |-> <<>>]
StrsCell(a) == [kind |-> "strs", m |-> NoMap, a |-> a]
MapsCell(a) == [kind |-> "maps", m |-> NoMap, a |-> a]

\* One statement after another: F applied to the value v.
Bind(v, F(_)) == F(v)

Alloc(mem, cell) == [mem |-> Append(mem, cell), addr |-> Len(mem) + 1]

\* the elements a slice shows
Elems(mem, sl) == IF sl.arr = 0 THEN <<>> ELSE SubSeq(mem[sl.arr].a, 1, sl.len)

\* v, ok := m[k]; reading a nil map yields the zero value
MapGet(mem, e, k) == IF e = 0 THEN Absent ELSE mem[e].m[k]
\* m[k] = sl, for a map that is not nil
MapSet(mem, e, k, sl) ==
    [mem EXCEPT ![e].m[k] = [present |-> TRUE, sl |-> sl]]

\* the keys a range loop over the map visits, in the iteration order ord
MapKeys(mem, e, ord) ==
    IF e = 0 THEN <<>> ELSE SelectSeq(ord, LAMBDA k : mem[e].m[k].present)

\* the orders in which a range loop may visit the keys of a map
Orders ==
    {o \in [1..Cardinality(Schemes) -> Schemes] :
        \A i, j \in DOMAIN o : i # j => o[i] # o[j]}

\* capacity of the array append allocates when the old one is too small
growCap(oldCap, needed) ==
    IF needed > 2 * oldCap THEN needed ELSE 2 * oldCap

Pad(n, x) == [i \in 1..n |-> x]

\* the slice over a freshly allocated array
Fresh(alloc, len, cap) ==
    [mem |-> alloc.mem, sl |-> [arr |-> alloc.addr, len |-> len, cap |-> cap]]

\* append(sl, xs...): in place when the capacity allows, else into a new
\* array holding a copy of the old elements.
appendStrings(mem, sl, xs) ==
    IF sl.len + Len(xs) <= sl.cap
    THEN [mem |-> [mem EXCEPT ![sl.arr].a =
                      [i \in 1..sl.cap |->
                          IF i > sl.len /\ i <= sl.len + Len(xs)
                          THEN xs[i - sl.len] ELSE @[i]]],
          sl  |-> [arr |-> sl.arr, len |-> sl.len + Len(xs), cap |-> sl.cap]]
    ELSE Bind(growCap(sl.cap, sl.len + Len(xs)), LAMBDA c :
           Fresh(Alloc(mem, StrsCell(Elems(mem, sl) \o xs
                                     \o Pad(c - (sl.len + Len(xs)), EMPTY))),
                 sl.len + Len(xs), c))

\* append(sl, m) for a slice of maps
appendMap(mem, sl, m) ==
    IF sl.len + 1 <= sl.cap
    THEN [mem |-> [mem EXCEPT ![sl.arr].a[sl.len + 1] = m],
          sl  |-> [arr |-> sl.arr, len |-> sl.len + 1, cap |-> sl.cap]]
    ELSE Bind(growCap(sl.cap, sl.len + 1), LAMBDA c :
           Fresh(Alloc(mem, MapsCell(Elems(mem, sl) \o <<m>>
                                     \o Pad(c - (sl.len + 1), 0))),
                 sl.len + 1, c))

cloneLists_Shallow(mem, src, dst, keys) ==
    [mem EXCEPT ![dst].m =
        [k \in Schemes |-> IF mem[src].m[k].present THEN mem[src].m[k] ELSE @[k]]]

\* The loop that copies every key of map src into the fresh map dst, each
\* non-nil list into a new array of exactly its length.
RECURSIVE cloneLists(_, _, _, _)
cloneLists(mem, src, dst, keys) ==
    IF keys = <<>> THEN mem
    ELSE IF mem[src].m[Head(keys)].sl.arr = 0
    THEN cloneLists(MapSet(mem, dst, Head(keys), NilSlice), src, dst, Tail(keys))
    ELSE Bind(Fresh(Alloc(mem, StrsCell(Elems(mem, mem[src].m[Head(keys)].sl))),
                    mem[src].m[Head(keys)].sl.len, mem[src].m[Head(keys)].sl.len),
              LAMBDA newList :
                cloneLists(MapSet(newList.mem, dst, Head(keys), newList.sl),
                           src, dst, Tail(keys)))

deepCloneEntitlements_NoClone(mem, e, ord) == [mem |-> mem, ret |-> e]

\* A nil mapping clones to nil; otherwise a fresh map with fresh lists.
deepCloneEntitlements(mem, e, ord) ==
    IF e = 0 THEN [mem |-> mem, ret |-> 0]
    ELSE Bind(Alloc(mem, MapCell(NoMap)), LAMBDA clone :
           [mem |-> cloneLists(clone.mem, e, clone.addr, MapKeys(mem, e, ord)),
            ret |-> clone.addr])

\* The loop over the entries of r: a nil entry stays nil in the clone.
RECURSIVE cloneEntries(_, _, _, _, _)
cloneEntries(mem, r, dst, i, ord) ==
    IF i > r.len THEN mem
    ELSE IF mem[r.arr].a[i] = 0 THEN cloneEntries(mem, r, dst, i + 1, ord)
    ELSE Bind(Alloc(mem, MapCell(NoMap)), LAMBDA newMap :
           cloneEntries([cloneLists(newMap.mem, mem[r.arr].a[i], newMap.addr,
                                    MapKeys(mem, mem[r.arr].a[i], ord))
                            EXCEPT ![dst].a[i] = newMap.addr],
                        r, dst, i + 1, ord))

\* A nil list clones to nil; otherwise a fresh array of fresh maps.
deepCloneRequirements(mem, r, ord) ==
    IF r.arr = 0 THEN [mem |-> mem, ret |-> NilSlice]
    ELSE Bind(Alloc(mem, MapsCell(Pad(r.len, 0))), LAMBDA clone :
           [mem |-> cloneEntries(clone.mem, r, clone.addr, 1, ord),
            ret |-> [arr |-> clone.addr, len |-> r.len, cap |-> r.len]])

----------------------------------------------------------------------------
(* The checker *)

\* An empty default scheme name (written "") stands for "bearer".
NewEntitlementsChecker(anonymousEntitlements, defaultScheme, grantReadyByDefault) ==
    [anonymousEntitlements |-> anonymousEntitlements,
     defaultScheme |-> IF defaultScheme = "" THEN "bearer" ELSE defaultScheme,
     grantReadyByDefault |-> grantReadyByDefault]

\* slices.Contains
Contains(list, x) == \E i \in 1..Len(list) : list[i] = x

RECURSIVE hasEntitlementFrom(_, _, _)
hasEntitlementFrom(held, required, i) ==
    IF i > Len(held) THEN FALSE
    ELSE IF entitlementMatches(held[i], required) THEN TRUE
    ELSE hasEntitlementFrom(held, required, i + 1)

\* some held entitlement matches the required one
hasEntitlement(held, required) == hasEntitlementFrom(held, required, 1)

RECURSIVE satisfiesRequirementFrom(_, _, _)
satisfiesRequirementFrom(held, required, i) ==
    IF i > Len(required) THEN TRUE
    ELSE IF ~hasEntitlement(held, required[i]) THEN FALSE
    ELSE satisfiesRequirementFrom(held, required, i + 1)

\* every required string is matched by a held one
satisfiesRequirement(held, required) == satisfiesRequirementFrom(held, required, 1)

RECURSIVE satisfiesAndRequirementsOver(_, _, _, _)
satisfiesAndRequirementsOver(mem, e, req, keys) ==
    IF keys = <<>> THEN TRUE
    ELSE IF ~MapGet(mem, e, Head(keys)).present THEN FALSE
    ELSE IF ~satisfiesRequirement(Elems(mem, MapGet(mem, e, Head(keys)).sl),
                                  Elems(mem, mem[req].m[Head(keys)].sl))
         THEN FALSE
    ELSE satisfiesAndRequirementsOver(mem, e, req, Tail(keys))

RECURSIVE satisfiesSkippingMissing(_, _, _, _)
satisfiesSkippingMissing(mem, e, req, keys) ==
    IF keys = <<>> THEN TRUE
    ELSE IF ~MapGet(mem, e, Head(keys)).present
         THEN satisfiesSkippingMissing(mem, e, req, Tail(keys))
    ELSE IF ~satisfiesRequirement(Elems(mem, MapGet(mem, e, Head(keys)).sl),
                                  Elems(mem, mem[req].m[Head(keys)].sl))
         THEN FALSE
    ELSE satisfiesSkippingMissing(mem, e, req, Tail(keys))

satisfiesAndRequirements_SkipMissing(mem, e, req, ord) ==
    satisfiesSkippingMissing(mem, e, req, MapKeys(mem, req, ord))

\* every scheme key of the entry must be held and satisfied
satisfiesAndRequirements(mem, e, req, ord) ==
    satisfiesAndRequirementsOver(mem, e, req, MapKeys(mem, req, ord))

RECURSIVE anonymousLoop_NoContains(_, _, _, _, _)
anonymousLoop_NoContains(st, c, e, scheme, i) ==
    IF i > Len(c.anonymousEntitlements) THEN st
    ELSE IF scheme = c.defaultScheme
    THEN Bind(appendStrings(st.mem, st.list, <<c.anonymousEntitlements[i]>>),
              LAMBDA ap :
                anonymousLoop_NoContains([mem |-> MapSet(ap.mem, e, scheme, ap.sl),
                                          list |-> ap.sl, added |-> TRUE],
                                         c, e, scheme, i + 1))
    ELSE anonymousLoop_NoContains(st, c, e, scheme, i + 1)

\* The loop over the anonymous entitlements for one scheme key of the
\* working copy: st is [mem, list, added].
RECURSIVE anonymousLoop(_, _, _, _, _)
anonymousLoop(st, c, e, scheme, i) ==
    IF i > Len(c.anonymousEntitlements) THEN st
    ELSE IF scheme = c.defaultScheme
            /\ ~Contains(Elems(st.mem, st.list), c.anonymousEntitlements[i])
    THEN Bind(appendStrings(st.mem, st.list, <<c.anonymousEntitlements[i]>>),
              LAMBDA ap :
                anonymousLoop([mem |-> MapSet(ap.mem, e, scheme, ap.sl),
                               list |-> ap.sl, added |-> TRUE],
                              c, e, scheme, i + 1))
    ELSE anonymousLoop(st, c, e, scheme, i + 1)

\* The loop over the scheme keys of the working copy: st is [mem, added].
RECURSIVE schemeLoop(_, _, _, _)
schemeLoop(st, c, e, keys) ==
    IF keys = <<>> THEN st
    ELSE Bind(anonymousLoop([mem |-> st.mem,
                             list |-> st.mem[e].m[Head(keys)].sl,
                             added |-> st.added], c, e, Head(keys), 1),
              LAMBDA r :
                schemeLoop([mem |-> r.mem, added |-> r.added], c, e, Tail(keys)))

\* entitlements[defaultScheme] = append(entitlements[defaultScheme], xs...);
\* the write panics when the map is nil.
appendUnderDefault(mem, c, e, xs) ==
    IF e = 0 THEN [mem |-> mem, ret |-> 0, panic |-> TRUE]
    ELSE Bind(appendStrings(mem, MapGet(mem, e, c.defaultScheme).sl, xs),
              LAMBDA ap :
                [mem |-> MapSet(ap.mem, e, c.defaultScheme, ap.sl),
                 ret |-> e, panic |-> FALSE])

\* what follows the loops: when nothing was added, the whole anonymous list
\* is appended under the default scheme
afterSchemeLoop(lp, c, e) ==
    IF lp.added THEN [mem |-> lp.mem, ret |-> e, panic |-> FALSE]
    ELSE appendUnderDefault(lp.mem, c, e, c.anonymousEntitlements)

\* The entitlements granted to anonymous are added to the default scheme
\* of a clone.
addAnonymous(mem, c, e, ord) ==
    Bind(deepCloneEntitlements(mem, e, ord), LAMBDA cl :
      afterSchemeLoop(schemeLoop([mem |-> cl.mem, added |-> FALSE], c, cl.ret,
                                 MapKeys(cl.mem, cl.ret, ord)),
                      c, cl.ret))

anyRequirement_FirstOnly(mem, e, r, i, ord) ==
    IF i > r.len THEN FALSE
    ELSE satisfiesAndRequirements(mem, e, mem[r.arr].a[i], ord)

\* requirements are OR'd: the first satisfied entry decides
RECURSIVE anyRequirement(_, _, _, _, _)
anyRequirement(mem, e, r, i, ord) ==
    IF i > r.len THEN FALSE
    ELSE IF satisfiesAndRequirements(mem, e, mem[r.arr].a[i], ord) THEN TRUE
    ELSE anyRequirement(mem, e, r, i + 1, ord)

\* the decision on the working entitlements w, unless making them panicked;
\* e is what the variable entitlements refers to when the call ends
decide(w, r, ord) ==
    IF w.panic THEN [mem |-> w.mem, ret |-> FALSE, panic |-> TRUE, e |-> w.ret]
    ELSE [mem |-> w.mem,
          ret |-> anyRequirement(w.mem, w.ret, r, 1, ord),
          panic |-> FALSE, e |-> w.ret]

VerifyEntitlements_AugmentFirst(mem, c, e, r, ord) ==
    Bind(IF Len(c.anonymousEntitlements) > 0
         THEN addAnonymous(mem, c, e, ord)
         ELSE [mem |-> mem, ret |-> e, panic |-> FALSE],
         LAMBDA w :
           IF ~w.panic /\ r.len = 0
           THEN [mem |-> w.mem, ret |-> TRUE, panic |-> FALSE, e |-> w.ret]
           ELSE decide(w, r, ord))

\* If there are no requirements, access is granted; otherwise the anonymous
\* entitlements are added and the entries are tried in order.
VerifyEntitlements(mem, c, e, r, ord) ==
    IF r.len = 0 THEN [mem |-> mem, ret |-> TRUE, panic |-> FALSE, e |-> e]
    ELSE decide(IF Len(c.anonymousEntitlements) > 0
                THEN addAnonymous(mem, c, e, ord)
                ELSE [mem |-> mem, ret |-> e, panic |-> FALSE],
                r, ord)

\* The loop that appends the identity to the default scheme of every
\* entry; writing into a nil entry panics.  st is [mem, ret, panic].
RECURSIVE identityLoop(_, _, _, _, _)
identityLoop(st, c, r, identity, i) ==
    IF st.panic \/ i > r.len THEN st
    ELSE identityLoop(appendUnderDefault(st.mem, c, st.mem[r.arr].a[i], <<identity>>),
                      c, r, identity, i + 1)

\* requirements = append(requirements, map[string][]string{defaultScheme: {identity}})
appendIdentityEntry(mem, c, r, identity) ==
    Bind(Alloc(mem, StrsCell(<<identity>>)), LAMBDA list :
      Bind(Alloc(list.mem,
                 MapCell([NoMap EXCEPT ![c.defaultScheme] =
                    [present |-> TRUE,
                     sl |-> [arr |-> list.addr, len |-> 1, cap |-> 1]]])),
           LAMBDA entry :
             Bind(appendMap(entry.mem, r, entry.addr), LAMBDA ap :
               [mem |-> ap.mem, ret |-> ap.sl, panic |-> FALSE])))

\* the identity in the list r: as its only entry when r is empty, else
\* appended to the default scheme of every entry
identityInto(mem, c, r, identity) ==
    IF r.len = 0 THEN appendIdentityEntry(mem, c, r, identity)
    ELSE Bind(identityLoop([mem |-> mem, ret |-> 0, panic |-> FALSE],
                           c, r, identity, 1),
              LAMBDA lp : [mem |-> lp.mem, ret |-> r, panic |-> lp.panic])

addIdentityRequirement_CloneOnly(mem, c, requirements0, identity, ord) ==
    Bind(deepCloneRequirements(mem, requirements0, ord), LAMBDA cl :
      [mem |-> cl.mem, ret |-> cl.ret, panic |-> FALSE])

\* The identity requirement is added to all requirements of a clone.
addIdentityRequirement(mem, c, requirements0, identity, ord) ==
    Bind(deepCloneRequirements(mem, requirements0, ord), LAMBDA cl :
      identityInto(cl.mem, c, cl.ret, identity))

addIdentityEntitlement_Always(mem, c, entitlements0, identity, ord) ==
    Bind(deepCloneEntitlements(mem, entitlements0, ord), LAMBDA cl :
      appendUnderDefault(cl.mem, c, cl.ret, <<identity>>))

\* The identity entitlement is added to a clone of the entitlements when
\* read is granted by default.
addIdentityEntitlement(mem, c, entitlements0, identity, ord) ==
    Bind(deepCloneEntitlements(mem, entitlements0, ord), LAMBDA cl :
      IF ~c.grantReadyByDefault
      THEN [mem |-> cl.mem, ret |-> cl.ret, panic |-> FALSE]
      ELSE appendUnderDefault(cl.mem, c, cl.ret, <<identity>>))

\* the identity entitlement and the decision, unless the requirements panicked
afterIdentityRequirement(rq, c, e, identity, ord) ==
    IF rq.panic THEN [mem |-> rq.mem, ret |-> FALSE, panic |-> TRUE, e |-> e]
    ELSE Bind(addIdentityEntitlement(rq.mem, c, e, identity, ord), LAMBDA en :
           IF en.panic
           THEN [mem |-> en.mem, ret |-> FALSE, panic |-> TRUE, e |-> en.ret]
           ELSE VerifyEntitlements(en.mem, c, en.ret, rq.ret, ord))

VerifyResourceEntitlements(mem, c, res, name, e, r, ord) ==
    afterIdentityRequirement(
        addIdentityRequirement(mem, c, r, Sprintf(res, name), ord),
        c, e, Sprintf(res, name), ord)

----------------------------------------------------------------------------
(* Bounded string universe for the matching rule *)

\* longest field count of an enumerated string
MaxFields == 4

\* field values of strings with at most three fields
Fields == {EMPTY, STAR, ALL, READ, <<"p">>}
\* field values of strings with more than three fields
OpaqueFields == {EMPTY, READ}

RECURSIVE Join(_)
Join(fs) == IF Len(fs) = 1 THEN fs[1]
            ELSE fs[1] \o <<COLON>> \o Join(Tail(fs))

FieldSeqs(F, n) == [1..n -> F]

Strings ==
    {Join(fs) : fs \in UNION {FieldSeqs(Fields, n) : n \in 1..3}}
    \cup {Join(fs) : fs \in UNION {FieldSeqs(OpaqueFields, n) : n \in 4..MaxFields}}

----------------------------------------------------------------------------
(* Specification of the matching rule alone *)

\* no call has built working entitlements
NoWorking ==
    [nil |-> TRUE, m |-> [k \in Schemes |-> [present |-> FALSE, s |-> <<>>]]]

NoChecker == [anonymousEntitlements |-> <<>>, defaultScheme |-> "bearer",
              grantReadyByDefault |-> FALSE]

InitMatch ==
    /\ ec = NoChecker
    /\ heap = <<>>
    /\ entitlements = 0
    /\ requirements = NilSlice
    /\ resource = EMPTY
    /\ resourceName = EMPTY
    /\ entitlement \in Strings
    /\ requirement \in Strings
    /\ op = "none"
    /\ outcome = "none"
    /\ result = FALSE
    /\ working = NoWorking
    /\ calls = <<>>

EntitlementMatchesCall ==
    /\ op = "none"
    /\ op' = "entitlementMatches"
    /\ outcome' = "return"
    /\ result' = entitlementMatches(entitlement, requirement)
    /\ UNCHANGED <<ec, heap, entitlements, requirements, resource, resourceName,
                   entitlement, requirement, working, calls>>

NextMatch == EntitlementMatchesCall

SpecMatch == InitMatch /\ [][NextMatch]_vars

----------------------------------------------------------------------------
(* Caller values.  A list value is a sequence of strings; a map value is   *)
(* [nil, m] with m[k] = [present, s]; a requirements value is [nil, es]    *)
(* with es a sequence of map values.                                       *)

\* most strings held in one entitlements mapping
MaxHeld == 1
\* most strings required in one requirements list
MaxRequired == 1
\* most strings of the anonymous list
MaxAnon == 1
\* the same for the checks of the plain decision, where the lists are longer
MaxHeldPlain == 2
MaxRequiredPlain == 2
\* most strings of the anonymous list where the list is followed string by
\* string
MaxAnonPlain == 2
\* the numbers of entries of a requirements list
EntryCounts == 0..2

P_ALL    == <<"p", COLON, "all">>
P_READ   == <<"p", COLON, "read">>
P_F_READ == <<"p", COLON, "f", COLON, "read">>

HeldStrings     == {P_F_READ}
RequiredStrings == {P_ALL}
AnonStrings     == {P_ALL, P_READ}
PlainStrings    == {P_ALL, P_F_READ}
Resources       == {<<"p">>}
\* instance names: plain, empty, the wildcard, and one holding a separator
ResourceNames   == {<<"f">>, <<"g">>, EMPTY, STAR, <<"f", COLON, "g">>}

SchemeSeq == <<"bearer", "other">>

ListsUpTo(U, n) == UNION {[1..k -> U] : k \in 0..n}

NoList == [present |-> FALSE, s |-> <<>>]
NilMapVal == [nil |-> TRUE, m |-> [k \in Schemes |-> NoList]]

RECURSIVE SumLen(_, _)
SumLen(m, i) == IF i > Len(SchemeSeq) THEN 0
                ELSE Len(m[SchemeSeq[i]].s) + SumLen(m, i + 1)
Size(mv) == SumLen(mv.m, 1)

MapVals(U, n) ==
    {[nil |-> FALSE, m |-> m] :
        m \in {f \in [Schemes -> {NoList} \cup
                        {[present |-> TRUE, s |-> l] : l \in ListsUpTo(U, n)}] :
                 SumLen(f, 1) <= n}}

RECURSIVE SumSize(_, _)
SumSize(es, i) == IF i > Len(es) THEN 0 ELSE Size(es[i]) + SumSize(es, i + 1)

EntitlementVals(U, n) == {NilMapVal} \cup MapVals(U, n)
RequirementVals(U, n) ==
    {[nil |-> TRUE, es |-> <<>>]} \cup
    {[nil |-> FALSE, es |-> es] :
        es \in {q \in UNION {[1..k -> EntitlementVals(U, n)] : k \in EntryCounts} :
                  SumSize(q, 1) <= n}}

\* How the caller built its lists: "nil" leaves empty lists nil and sizes
\* every array exactly; "spare" makes every list with one unused slot.
Styles == {"nil", "spare"}

LayoutList(mem, s, style) ==
    IF style = "nil"
    THEN IF s = <<>> THEN [mem |-> mem, sl |-> NilSlice]
         ELSE LET a == Alloc(mem, StrsCell(s))
              IN  [mem |-> a.mem, sl |-> [arr |-> a.addr, len |-> Len(s), cap |-> Len(s)]]
    ELSE LET a == Alloc(mem, StrsCell(Append(s, EMPTY)))
         IN  [mem |-> a.mem, sl |-> [arr |-> a.addr, len |-> Len(s), cap |-> Len(s) + 1]]

\* st is [mem, m]
RECURSIVE LayoutKeys(_, _, _, _)
LayoutKeys(st, mv, style, i) ==
    IF i > Len(SchemeSeq) THEN st
    ELSE LET k == SchemeSeq[i] IN
         IF ~mv.m[k].present THEN LayoutKeys(st, mv, style, i + 1)
         ELSE LET l == LayoutList(st.mem, mv.m[k].s, style)
              IN  LayoutKeys([mem |-> l.mem,
                              m |-> [st.m EXCEPT ![k] = [present |-> TRUE, sl |-> l.sl]]],
                             mv, style, i + 1)

LayoutMap(mem, mv, style) ==
    IF mv.nil THEN [mem |-> mem, ret |-> 0]
    ELSE LET ks == LayoutKeys([mem |-> mem, m |-> NoMap], mv, style, 1)
             a == Alloc(ks.mem, MapCell(ks.m))
         IN  [mem |-> a.mem, ret |-> a.addr]

\* st is [mem, refs]
RECURSIVE LayoutEntries(_, _, _, _)
LayoutEntries(st, es, style, i) ==
    IF i > Len(es) THEN st
    ELSE LET e == LayoutMap(st.mem, es[i], style)
         IN  LayoutEntries([mem |-> e.mem, refs |-> Append(st.refs, e.ret)],
                           es, style, i + 1)

LayoutRequirements(mem, rv, style) ==
    IF rv.nil THEN [mem |-> mem, ret |-> NilSlice]
    ELSE LET es == LayoutEntries([mem |-> mem, refs |-> <<>>], rv.es, style, 1)
             spare == IF style = "spare" THEN 1 ELSE 0
             a == Alloc(es.mem, MapsCell(es.refs \o Pad(spare, 0)))
         IN  [mem |-> a.mem,
              ret |-> [arr |-> a.addr, len |-> Len(rv.es), cap |-> Len(rv.es) + spare]]

\* Reading the caller's values back from memory.
MapValue(mem, e) ==
    IF e = 0 THEN NilMapVal
    ELSE [nil |-> FALSE,
          m |-> [k \in Schemes |->
                   [present |-> mem[e].m[k].present,
                    s |-> Elems(mem, mem[e].m[k].sl)]]]

RequirementsValue(mem, r) ==
    [nil |-> r.arr = 0,
     es |-> [i \in 1..r.len |-> MapValue(mem, mem[r.arr].a[i])]]

----------------------------------------------------------------------------
(* Specification of the two public operations *)

InitCaller(anons, defaults, grants, styles, evs, rvs) ==
    /\ \E a \in anons, d \in defaults, g \in grants :
          ec = NewEntitlementsChecker(a, d, g)
    /\ \E ev \in evs, rv \in rvs, style \in styles :
          LET e == LayoutMap(<<>>, ev, style)
              r == LayoutRequirements(e.mem, rv, style)
          IN  /\ heap = r.mem
              /\ entitlements = e.ret
              /\ requirements = r.ret
    /\ resource = EMPTY
    /\ resourceName = EMPTY
    /\ entitlement = EMPTY
    /\ requirement = EMPTY
    /\ op = "none"
    /\ outcome = "none"
    /\ result = FALSE
    /\ working = NoWorking

\* no goroutine is running: the operations are called one at a time
InitOver(anons, defaults, grants, styles, evs, rvs) ==
    /\ InitCaller(anons, defaults, grants, styles, evs, rvs)
    /\ calls = <<>>

AnonLists == ListsUpTo(AnonStrings, MaxAnon)
Entitlements == EntitlementVals(HeldStrings, MaxHeld)
Requirements == RequirementVals(RequiredStrings, MaxRequired)

Init == InitOver(AnonLists, {"", "other"}, BOOLEAN, Styles, Entitlements, Requirements)

\* what the caller still sees of its memory after a call
CallerMemory(mem) == SubSeq(mem, 1, Len(heap))

VerifyEntitlementsCall ==
    /\ op = "none"
    /\ \E ord \in Orders :
          LET r == VerifyEntitlements(heap, ec, entitlements, requirements, ord)
          IN  /\ heap' = CallerMemory(r.mem)
              /\ outcome' = IF r.panic THEN "panic" ELSE "return"
              /\ result' = r.ret
              /\ working' = MapValue(r.mem, r.e)
    /\ op' = "VerifyEntitlements"
    /\ UNCHANGED <<ec, entitlements, requirements, resource, resourceName,
                   entitlement, requirement, calls>>

VerifyResourceEntitlementsCall ==
    /\ op = "none"
    /\ \E res \in Resources, name \in ResourceNames, ord \in Orders :
          LET r == VerifyResourceEntitlements(heap, ec, res, name,
                                              entitlements, requirements, ord)
          IN  /\ heap' = CallerMemory(r.mem)
              /\ outcome' = IF r.panic THEN "panic" ELSE "return"
              /\ result' = r.ret
              /\ resource' = res
              /\ resourceName' = name
              /\ working' = MapValue(r.mem, r.e)
    /\ op' = "VerifyResourceEntitlements"
    /\ UNCHANGED <<ec, entitlements, requirements, entitlement, requirement, calls>>

Next == VerifyEntitlementsCall \/ VerifyResourceEntitlementsCall

Spec == Init /\ [][Next]_vars

\* The plain decision on a checker without anonymous entitlements.
PlainEntitlements == EntitlementVals(PlainStrings, MaxHeldPlain)
PlainRequirements == RequirementVals(PlainStrings, MaxRequiredPlain)

InitPlain ==
    InitOver({<<>>}, {""}, {FALSE}, {"nil"}, PlainEntitlements, PlainRequirements)

NextPlain == VerifyEntitlementsCall

SpecPlain == InitPlain /\ [][NextPlain]_vars

\* The plain decision on checkers whose anonymous list may repeat a string
\* and may hold strings the caller holds too.
PlainAnonLists == ListsUpTo(PlainStrings, MaxAnonPlain)

InitAnon ==
    InitOver(PlainAnonLists, {""}, {FALSE}, {"nil"}, PlainEntitlements, Requirements)

NextAnon == VerifyEntitlementsCall

SpecAnon == InitAnon /\ [][NextAnon]_vars

\* Both operations on lists long enough to be reordered, on a checker with
\* an anonymous entitlement.
InitOrder ==
    InitOver({<<P_F_READ>>}, {""}, {FALSE}, {"nil"},
             PlainEntitlements, PlainRequirements)

NextOrder == VerifyEntitlementsCall \/ VerifyResourceEntitlementsCall

SpecOrder == InitOrder /\ [][NextOrder]_vars

----------------------------------------------------------------------------
(* Concurrent calls.  Each call is a goroutine that runs one of the two    *)
(* operations on the shared checker and the shared caller values; a step   *)
(* is one statement of the operation.  A call keeps its own variables      *)
(* entitlements (e) and requirements (r), which first refer to the         *)
(* caller's values.  heap holds the cells of the caller's values, which    *)
(* all calls share; mem holds the cells a call has allocated itself, which *)
(* only that call can reach: an address beyond the caller's cells in the   *)
(* variables of a call refers to the call's own cells.                     *)

\* number of concurrent calls
NumCalls == 2

Kinds == {"VerifyEntitlements", "VerifyResourceEntitlements"}
ConcurrentNames == {<<"f">>}

ConcurrentAnonLists == {<<>>, <<P_ALL>>}
ConcurrentRequirements == {rv \in Requirements : Len(rv.es) <= 1}

NewCall(kind, res, name) ==
    [kind |-> kind,
     pc |-> IF kind = "VerifyResourceEntitlements"
            THEN "cloneRequirements" ELSE "checkRequirements",
     res |-> res, name |-> name,
     e |-> entitlements, r |-> requirements, mem |-> <<>>,
     outcome |-> "none", result |-> FALSE]

InitConcurrent ==
    /\ InitCaller(ConcurrentAnonLists, {""}, BOOLEAN, {"spare"},
                  Entitlements, ConcurrentRequirements)
    /\ calls \in [1..NumCalls ->
                    {NewCall(k, res, name) :
                        k \in Kinds, res \in Resources, name \in ConcurrentNames}]

Shared == <<ec, entitlements, requirements, resource, resourceName,
            entitlement, requirement, op, outcome, result, working>>

\* the memory call i works on: the caller's cells and its own
Memory(i) == heap \o calls[i].mem

\* call i has made the memory mem and continues as call
Step(i, mem, call) ==
    /\ heap' = SubSeq(mem, 1, Len(heap))
    /\ calls' = [calls EXCEPT ![i] =
                   [call EXCEPT !.mem = SubSeq(mem, Len(heap) + 1, Len(mem))]]
    /\ UNCHANGED Shared

Panicked(call) == [call EXCEPT !.pc = "done", !.outcome = "panic"]
Returned(call, b) ==
    [call EXCEPT !.pc = "done", !.outcome = "return", !.result = b]

\* requirements = deepCloneRequirements(requirements)
CloneRequirements(i) ==
    /\ calls[i].pc = "cloneRequirements"
    /\ \E ord \in Orders :
          LET cl == deepCloneRequirements(Memory(i), calls[i].r, ord)
          IN  Step(i, cl.mem, [calls[i] EXCEPT !.r = cl.ret,
                                               !.pc = "addIdentityRequirement"])

\* the identity requirement is added to all requirements
AddIdentityRequirement(i) ==
    /\ calls[i].pc = "addIdentityRequirement"
    /\ LET rq == identityInto(Memory(i), ec, calls[i].r,
                              Sprintf(calls[i].res, calls[i].name))
       IN  Step(i, rq.mem,
                IF rq.panic THEN Panicked(calls[i])
                ELSE [calls[i] EXCEPT !.r = rq.ret, !.pc = "cloneEntitlements"])

\* entitlements = deepCloneEntitlements(entitlements), in either operation
CloneEntitlements(i) ==
    /\ calls[i].pc \in {"cloneEntitlements", "cloneWorking"}
    /\ \E ord \in Orders :
          LET cl == deepCloneEntitlements(Memory(i), calls[i].e, ord)
          IN  Step(i, cl.mem, [calls[i] EXCEPT !.e = cl.ret,
                                               !.pc = IF @ = "cloneEntitlements"
                                                      THEN "addIdentityEntitlement"
                                                      ELSE "addAnonymous"])

\* the identity entitlement is added when read is granted by default
AddIdentityEntitlement(i) ==
    /\ calls[i].pc = "addIdentityEntitlement"
    /\ LET en == IF ec.grantReadyByDefault
                 THEN appendUnderDefault(Memory(i), ec, calls[i].e,
                                         <<Sprintf(calls[i].res, calls[i].name)>>)
                 ELSE [mem |-> Memory(i), ret |-> calls[i].e, panic |-> FALSE]
       IN  Step(i, en.mem,
                IF en.panic THEN Panicked(calls[i])
                ELSE [calls[i] EXCEPT !.pc = "checkRequirements"])

\* if len(requirements) == 0 { return true }
CheckRequirements(i) ==
    /\ calls[i].pc = "checkRequirements"
    /\ Step(i, Memory(i),
            IF calls[i].r.len = 0 THEN Returned(calls[i], TRUE)
            ELSE IF Len(ec.anonymousEntitlements) > 0
            THEN [calls[i] EXCEPT !.pc = "cloneWorking"]
            ELSE [calls[i] EXCEPT !.pc = "decide"])

\* the anonymous entitlements are added to the default scheme
AddAnonymous(i) ==
    /\ calls[i].pc = "addAnonymous"
    /\ \E ord \in Orders :
          LET w == afterSchemeLoop(
                       schemeLoop([mem |-> Memory(i), added |-> FALSE], ec,
                                  calls[i].e, MapKeys(Memory(i), calls[i].e, ord)),
                       ec, calls[i].e)
          IN  Step(i, w.mem,
                   IF w.panic THEN Panicked(calls[i])
                   ELSE [calls[i] EXCEPT !.pc = "decide"])

\* the loop over the requirements and the return
Decide(i) ==
    /\ calls[i].pc = "decide"
    /\ \E ord \in Orders :
          Step(i, Memory(i),
               Returned(calls[i],
                        anyRequirement(Memory(i), calls[i].e, calls[i].r, 1, ord)))

NextConcurrent ==
    \E i \in 1..NumCalls :
        \/ CloneRequirements(i)
        \/ AddIdentityRequirement(i)
        \/ CloneEntitlements(i)
        \/ AddIdentityEntitlement(i)
        \/ CheckRequirements(i)
        \/ AddAnonymous(i)
        \/ Decide(i)

SpecConcurrent == InitConcurrent /\ [][NextConcurrent]_vars

----------------------------------------------------------------------------
(* Properties of the two public operations *)

CallerEntitlements == MapValue(heap, entitlements)
CallerRequirements == RequirementsValue(heap, requirements)

\* C1: VerifyEntitlements called with an empty or nil requirements list
\* returns true, whatever the checker configuration and the entitlements.
C1_NoRequirementsGrants ==
    (op = "VerifyEntitlements" /\ requirements.len = 0)
      => (outcome = "return" /\ result)

\* The vacuous grant on a checker with anonymous entitlements, for a caller
\* whose entitlements mapping is nil.
C1_Witness ==
    /\ op = "VerifyEntitlements" /\ outcome = "return" /\ result
    /\ requirements.len = 0
    /\ entitlements = 0
    /\ Len(ec.anonymousEntitlements) > 0

\* C2: a call of VerifyEntitlements or VerifyResourceEntitlements leaves the
\* caller's memory as it was: no cell of it is written, so the entitlements
\* mapping and the requirements list read the same before and after.
C2_CallerUntouched ==
    [][(op = "none" /\ op' # "none") =>
          /\ heap' = heap
          /\ MapValue(heap', entitlements') = MapValue(heap, entitlements)
          /\ RequirementsValue(heap', requirements')
               = RequirementsValue(heap, requirements)]_vars

\* A returned resource check that appended the identity and the anonymous
\* entitlements, for a caller whose default-scheme list has an unused slot.
C2_Witness ==
    /\ op = "VerifyResourceEntitlements" /\ outcome = "return"
    /\ Len(ec.anonymousEntitlements) > 0
    /\ ec.grantReadyByDefault
    /\ requirements.len > 0
    /\ entitlements # 0
    /\ LET l == MapGet(heap, entitlements, ec.defaultScheme)
       IN  l.present /\ l.sl.len > 0 /\ l.sl.cap > l.sl.len

\* an entry is satisfied when every scheme key of it is held and every
\* required string under the key is matched by a string held under it
EntrySatisfied(ev, entry) ==
    \A k \in Schemes :
        entry.m[k].present =>
          /\ ev.m[k].present
          /\ \A i \in 1..Len(entry.m[k].s) :
                \E j \in 1..Len(ev.m[k].s) :
                    entitlementMatches(ev.m[k].s[j], entry.m[k].s[i])

\* C3: without anonymous entitlements, VerifyEntitlements(E, R) with
\* non-empty R returns true exactly when some entry of R has every scheme key
\* held in E with every required string matched under that same key.
C3_OrOfAnds ==
    (/\ op = "VerifyEntitlements"
     /\ Len(ec.anonymousEntitlements) = 0
     /\ requirements.len > 0)
      => /\ outcome = "return"
         /\ result <=> \E i \in 1..Len(CallerRequirements.es) :
                          EntrySatisfied(CallerEntitlements, CallerRequirements.es[i])

\* A grant by the second entry, which requires a string under a held key,
\* after the first entry failed on a scheme key that is not held.
C3_Witness ==
    /\ op = "VerifyEntitlements" /\ outcome = "return" /\ result
    /\ Len(ec.anonymousEntitlements) = 0
    /\ Len(CallerRequirements.es) = 2
    /\ \E k \in Schemes : /\ CallerRequirements.es[1].m[k].present
                          /\ ~CallerEntitlements.m[k].present
    /\ \E k \in Schemes : Len(CallerRequirements.es[2].m[k].s) > 0

\* mv with x appended to the list under key k, the key created when absent
AppendUnder(mv, k, xs) ==
    [nil |-> FALSE,
     m |-> [mv.m EXCEPT ![k] = [present |-> TRUE, s |-> @.s \o xs]]]

\* what VerifyEntitlements of checker c does for the values ev and rv
Decision(c, ev, rv) ==
    LET e == LayoutMap(<<>>, ev, "nil")
        r == LayoutRequirements(e.mem, rv, "nil")
        d == VerifyEntitlements(r.mem, c, e.ret, r.ret, SchemeSeq)
    IN  [outcome |-> IF d.panic THEN "panic" ELSE "return", result |-> d.ret]

Identity == Sprintf(resource, resourceName)

IdentityRequirements(rv) ==
    IF Len(rv.es) = 0
    THEN [nil |-> FALSE,
          es |-> <<AppendUnder(NilMapVal, ec.defaultScheme, <<Identity>>)>>]
    ELSE [nil |-> FALSE,
          es |-> [i \in 1..Len(rv.es) |->
                    AppendUnder(rv.es[i], ec.defaultScheme, <<Identity>>)]]

IdentityEntitlements(ev) ==
    IF ec.grantReadyByDefault
    THEN AppendUnder(ev, ec.defaultScheme, <<Identity>>) ELSE ev

\* C5: VerifyResourceEntitlements(resource, resourceName, E, R) returns what
\* VerifyEntitlements(E2, R2) returns, where R2 is R with the identity
\* appended to the default scheme of every entry (or the single entry holding
\* the identity when R is empty) and E2 is E with the identity appended under
\* the default scheme when read is granted by default.
C5_ResourceCheckDelegates ==
    op = "VerifyResourceEntitlements" =>
        [outcome |-> outcome, result |-> result]
          = Decision(ec, IdentityEntitlements(CallerEntitlements),
                     IdentityRequirements(CallerRequirements))

WithoutAnonymous ==
    NewEntitlementsChecker(<<>>, ec.defaultScheme, ec.grantReadyByDefault)

\* C6: with a non-empty anonymous list A and non-empty R, VerifyEntitlements
\* (E, R) returns what a checker without anonymous entitlements returns for
\* (E', R), where E' is E with every string of A added to the default-scheme
\* list (the list taken as empty when the key is absent).
C6_AnonymousUnderDefaultScheme ==
    (/\ op = "VerifyEntitlements"
     /\ Len(ec.anonymousEntitlements) > 0
     /\ requirements.len > 0)
      => [outcome |-> outcome, result |-> result]
           = Decision(WithoutAnonymous,
                      AppendUnder(CallerEntitlements, ec.defaultScheme,
                                  ec.anonymousEntitlements),
                      CallerRequirements)

\* C7: every call of VerifyEntitlements and of VerifyResourceEntitlements
\* completes and returns a boolean, nil inputs included.
C7_Total == op # "none" => outcome = "return"

\* the entitlements VerifyEntitlements decides on: the caller's mapping with
\* the anonymous entitlements under the default scheme
Working(ev) ==
    IF Len(ec.anonymousEntitlements) > 0
    THEN AppendUnder(ev, ec.defaultScheme, ec.anonymousEntitlements)
    ELSE ev

\* an entry that names scheme keys and requires no string under any of them
PresenceOnly(entry) ==
    /\ \E k \in Schemes : entry.m[k].present
    /\ \A k \in Schemes : entry.m[k].s = <<>>

AllPresent(ev, entry) ==
    \A k \in Schemes : entry.m[k].present => ev.m[k].present

\* C12: when every entry of R only names scheme keys with empty required
\* lists, VerifyEntitlements(E, R) returns true exactly when, for some entry,
\* every key of the entry is a key of the working entitlements, whatever
\* the lists held under the keys.
C12_PresenceOnly ==
    (/\ op = "VerifyEntitlements"
     /\ requirements.len > 0
     /\ \A i \in 1..Len(CallerRequirements.es) :
            PresenceOnly(CallerRequirements.es[i]))
      => /\ outcome = "return"
         /\ result <=> \E i \in 1..Len(CallerRequirements.es) :
                          AllPresent(Working(CallerEntitlements),
                                     CallerRequirements.es[i])

NoKeys(ev) == \A k \in Schemes : ~ev.m[k].present

\* C13: without anonymous entitlements and with the flag off,
\* VerifyResourceEntitlements returns false for every resource, name and
\* requirements list when E has no scheme keys.
C13_DenyByDefault ==
    (/\ op = "VerifyResourceEntitlements"
     /\ Len(ec.anonymousEntitlements) = 0
     /\ ~ec.grantReadyByDefault
     /\ NoKeys(CallerEntitlements))
      => (outcome = "return" /\ ~result)

\* C14: with the anonymous list [r:read] and the flag off,
\* VerifyResourceEntitlements(r, n, E, []) returns true for every name n and
\* every entitlements mapping E.
C14_AnonymousReadCoversAll ==
    (/\ op = "VerifyResourceEntitlements"
     /\ ec.anonymousEntitlements = <<resource \o <<COLON>> \o READ>>
     /\ ~ec.grantReadyByDefault
     /\ requirements.len = 0)
      => (outcome = "return" /\ result)

\* C15: with the flag set, VerifyResourceEntitlements(resource, name, E, [])
\* returns true for every resource, name and entitlements mapping E.
C15_GrantReadByDefault ==
    (/\ op = "VerifyResourceEntitlements"
     /\ ec.grantReadyByDefault
     /\ requirements.len = 0)
      => (outcome = "return" /\ result)

Augmenting ==
    /\ op = "VerifyEntitlements"
    /\ Len(ec.anonymousEntitlements) > 0
    /\ requirements.len > 0

HeldUnderDefault == CallerEntitlements.m[ec.defaultScheme]
WorkingList == working.m[ec.defaultScheme].s

\* C18 as claimed: in a VerifyEntitlements call with non-empty requirements
\* and a non-empty anonymous list, the working default-scheme list is the
\* caller's default-scheme list followed by the whole anonymous list.
C18_AppendedOnceEach ==
    Augmenting =>
      /\ outcome = "return"
      /\ WorkingList = HeldUnderDefault.s \o ec.anonymousEntitlements
      /\ Len(WorkingList)
            = Len(HeldUnderDefault.s) + Len(ec.anonymousEntitlements)

\* list with every string of xs from position i on that it does not hold
\* yet, each added at the end in turn
RECURSIVE WithMissing(_, _, _)
WithMissing(list, xs, i) ==
    IF i > Len(xs) THEN list
    ELSE IF \E j \in 1..Len(list) : list[j] = xs[i]
    THEN WithMissing(list, xs, i + 1)
    ELSE WithMissing(Append(list, xs[i]), xs, i + 1)

AugmentedList ==
    LET added == WithMissing(HeldUnderDefault.s, ec.anonymousEntitlements, 1)
    IN  IF HeldUnderDefault.present /\ added # HeldUnderDefault.s
        THEN added
        ELSE HeldUnderDefault.s \o ec.anonymousEntitlements

\* C18 amended: in such a call on a non-nil mapping, each anonymous string
\* that the working default-scheme list does not hold yet is appended once,
\* in order; when that appends nothing (the key is absent, or every
\* anonymous string is held already) the whole anonymous list is appended.
\* On a nil mapping the call panics and the working mapping stays nil.
C18_AppendedUnlessHeld ==
    Augmenting =>
      IF CallerEntitlements.nil
      THEN outcome = "panic" /\ working.nil
      ELSE outcome = "return" /\ WorkingList = AugmentedList

\* A call where the caller holds the first of two different anonymous
\* strings under the default scheme, so that only the second is appended.
C18_Witness ==
    /\ Augmenting /\ outcome = "return"
    /\ Len(ec.anonymousEntitlements) = 2
    /\ ec.anonymousEntitlements[1] # ec.anonymousEntitlements[2]
    /\ HeldUnderDefault.s = <<ec.anonymousEntitlements[1]>>
    /\ Len(WorkingList) = 2

\* the orders of the elements of a list
Reordered(l) ==
    {[i \in 1..Len(l) |-> l[p[i]]] : p \in Permutations(1..Len(l))}

\* a mapping with the strings under every key in any order
ReorderedMap(mv) ==
    {[nil |-> mv.nil, m |-> m] :
        m \in {f \in [Schemes -> UNION {{[present |-> mv.m[k].present, s |-> l] :
                                           l \in Reordered(mv.m[k].s)} :
                                         k \in Schemes}] :
                 \A k \in Schemes : /\ f[k].present = mv.m[k].present
                                    /\ f[k].s \in Reordered(mv.m[k].s)}}

\* a requirements list with the entries in any order and the required
\* strings of every scheme in any order
ReorderedRequirements(rv) ==
    {[nil |-> rv.nil, es |-> es] :
        es \in UNION {{q \in [1..Len(rv.es) ->
                                UNION {ReorderedMap(rv.es[i]) : i \in 1..Len(rv.es)}] :
                          \A i \in 1..Len(rv.es) : q[i] \in ReorderedMap(rv.es[p[i]])} :
                      p \in Permutations(1..Len(rv.es))}}

\* what the operation called in this state does for the values ev and rv
\* when the scheme keys are iterated in the order ord
DecisionIn(ev, rv, ord) ==
    LET e == LayoutMap(<<>>, ev, "nil")
        r == LayoutRequirements(e.mem, rv, "nil")
        d == IF op = "VerifyEntitlements"
             THEN VerifyEntitlements(r.mem, ec, e.ret, r.ret, ord)
             ELSE VerifyResourceEntitlements(r.mem, ec, resource, resourceName,
                                             e.ret, r.ret, ord)
    IN  [outcome |-> IF d.panic THEN "panic" ELSE "return", result |-> d.ret]

\* C16: the outcome of VerifyEntitlements and of VerifyResourceEntitlements
\* is the same for every order of the strings held under a scheme, of the
\* strings required under a scheme and of the entries of the requirements
\* list, and for every iteration order of the scheme keys.
C16_OrderIndependent ==
    op # "none" =>
      \A ev \in ReorderedMap(CallerEntitlements),
         rv \in ReorderedRequirements(CallerRequirements),
         ord \in Orders :
           DecisionIn(ev, rv, ord) = [outcome |-> outcome, result |-> result]

\* A grant by the second of two entries, after the first failed, for a
\* caller that holds two different strings under one scheme.
C16_Witness ==
    /\ op # "none" /\ outcome = "return" /\ result
    /\ Len(CallerRequirements.es) = 2
    /\ ~EntrySatisfied(Working(CallerEntitlements), CallerRequirements.es[1])
    /\ \E k \in Schemes : /\ Len(CallerEntitlements.m[k].s) = 2
                          /\ CallerEntitlements.m[k].s[1] # CallerEntitlements.m[k].s[2]

\* the memory cells of the caller's values: the mapping, the arrays of its
\* lists, the array of the requirements list, its entries and their arrays
MapCells(mem, e) ==
    IF e = 0 THEN {}
    ELSE {e} \cup ({mem[e].m[k].sl.arr : k \in Schemes} \ {0})

CallerCells ==
    MapCells(heap, entitlements) \cup
    (IF requirements.arr = 0 THEN {}
     ELSE {requirements.arr} \cup
          UNION {MapCells(heap, heap[requirements.arr].a[i]) :
                    i \in 1..requirements.len})

\* what a call returns when it runs alone on the caller's values
Alone(call) ==
    LET e == LayoutMap(<<>>, CallerEntitlements, "nil")
        r == LayoutRequirements(e.mem, CallerRequirements, "nil")
        d == IF call.kind = "VerifyEntitlements"
             THEN VerifyEntitlements(r.mem, ec, e.ret, r.ret, SchemeSeq)
             ELSE VerifyResourceEntitlements(r.mem, ec, call.res, call.name,
                                             e.ret, r.ret, SchemeSeq)
    IN  [outcome |-> IF d.panic THEN "panic" ELSE "return", result |-> d.ret]

\* C17: in every interleaving of the steps of concurrent calls that share
\* the checker and the caller's values, no step writes a memory cell of the
\* caller's values or changes the checker's configuration, and every call
\* ends as it ends when it runs alone.
C17_NoInterference ==
    [][/\ ec' = ec
       /\ entitlements' = entitlements
       /\ requirements' = requirements
       /\ \A a \in CallerCells : heap'[a] = heap[a]
       /\ \A i \in DOMAIN calls :
             calls'[i].pc = "done" =>
               [outcome |-> calls'[i].outcome, result |-> calls'[i].result]
                 = Alone(calls[i])]_vars

\* A plain check and a resource check have both returned, on a checker with
\* anonymous entitlements and the flag set, for a caller whose
\* default-scheme list has an unused slot.
C17_Witness ==
    /\ Len(calls) = NumCalls
    /\ \A i \in DOMAIN calls : calls[i].pc = "done" /\ calls[i].outcome = "return"
    /\ \E i, j \in DOMAIN calls : calls[i].kind # calls[j].kind
    /\ Len(ec.anonymousEntitlements) > 0 /\ ec.grantReadyByDefault
    /\ requirements.len > 0
    /\ entitlements # 0
    /\ LET l == MapGet(heap, entitlements, ec.defaultScheme)
       IN  l.present /\ l.sl.len > 0 /\ l.sl.cap > l.sl.len

Granted == op = "VerifyResourceEntitlements" /\ outcome = "return" /\ result

PlainDecision == Decision(ec, CallerEntitlements, CallerRequirements)

\* C19 as claimed: for every configuration, when VerifyResourceEntitlements
\* (resource, name, E, R) returns true, VerifyEntitlements(E, R) returns true.
C19_NeverMorePermissive ==
    Granted => PlainDecision = [outcome |-> "return", result |-> TRUE]

\* C19 amended: on a checker with the grant-read-by-default flag off, when
\* VerifyResourceEntitlements(resource, name, E, R) returns true,
\* VerifyEntitlements(E, R) returns true.
C19_NeverMorePermissiveFlagOff ==
    (Granted /\ ~ec.grantReadyByDefault)
      => PlainDecision = [outcome |-> "return", result |-> TRUE]

\* A resource check granted with the flag off for requirements that name a
\* required string.
C19_Witness ==
    /\ Granted /\ ~ec.grantReadyByDefault
    /\ requirements.len > 0
    /\ \E k \in Schemes : Len(CallerRequirements.es[1].m[k].s) > 0

----------------------------------------------------------------------------
(* Reading a string by the positions of its separators, independently of  *)
(* Split: used to state the properties of the matching rule.               *)

ColonAt(s) == {i \in 1..Len(s) : s[i] = COLON}
NumFields(s) == Cardinality(ColonAt(s)) + 1
ColonPos(s, k) ==
    CHOOSE i \in ColonAt(s) : Cardinality({j \in ColonAt(s) : j < i}) = k - 1
FieldOf(s, k) ==
    LET lo == IF k = 1 THEN 0 ELSE ColonPos(s, k - 1)
        hi == IF k = NumFields(s) THEN Len(s) + 1 ELSE ColonPos(s, k)
    IN  SubSeq(s, lo + 1, hi - 1)

Structured(s) == NumFields(s) \in {2, 3}
TypeOf(s) == FieldOf(s, 1)
VerbOf(s) == FieldOf(s, NumFields(s))
NameOf(s) == IF NumFields(s) = 2 THEN EMPTY ELSE FieldOf(s, 2)
WildName(s) == NameOf(s) = EMPTY \/ NameOf(s) = STAR
VerbCovers(h, r) == VerbOf(h) = ALL \/ VerbOf(h) = VerbOf(r)

Matched == op = "entitlementMatches" /\ outcome = "return"

\* C4: entitlementMatches(held, required) is true exactly when the strings
\* are equal, or both have 2 or 3 fields and the resource types are equal,
\* held's verb is "all" or equals required's verb, and one of the names is
\* empty or "*" or the names are equal.
C4_MatchRule ==
    Matched =>
      (result <=>
         \/ entitlement = requirement
         \/ /\ Structured(entitlement) /\ Structured(requirement)
            /\ TypeOf(entitlement) = TypeOf(requirement)
            /\ VerbCovers(entitlement, requirement)
            /\ \/ WildName(entitlement)
               \/ WildName(requirement)
               \/ NameOf(entitlement) = NameOf(requirement))

\* A short-form held grant matched against a different long-form requirement.
C4_Witness ==
    /\ Matched /\ result
    /\ entitlement # requirement
    /\ NumFields(entitlement) = 2 /\ NumFields(requirement) = 3
    /\ ~WildName(requirement)
    /\ VerbOf(entitlement) = READ

\* C8: when either string has 1 field or 4 or more fields, the match
\* succeeds exactly when the two strings are the same string.
C8_OpaqueExactOnly ==
    (Matched /\ (~Structured(entitlement) \/ ~Structured(requirement)))
      => (result <=> entitlement = requirement)

\* A structured "all" grant refused for an opaque requirement naming the
\* same resource.
C8_Witness ==
    /\ Matched /\ ~result
    /\ NumFields(requirement) = 1 /\ requirement # EMPTY
    /\ Structured(entitlement)
    /\ TypeOf(entitlement) = requirement
    /\ VerbOf(entitlement) = ALL

\* C9: for structured strings with the same resource type and the same
\* resource name, held matches required exactly when held's verb is "all"
\* or equals required's verb.
C9_VerbOneDirectional ==
    (/\ Matched
     /\ Structured(entitlement) /\ Structured(requirement)
     /\ TypeOf(entitlement) = TypeOf(requirement)
     /\ NameOf(entitlement) = NameOf(requirement))
      => (result <=> VerbCovers(entitlement, requirement))

\* Held r:n:read refused for required r:n:all.
C9_Witness ==
    /\ Matched /\ ~result
    /\ NumFields(entitlement) = 3 /\ NumFields(requirement) = 3
    /\ TypeOf(entitlement) = TypeOf(requirement)
    /\ NameOf(entitlement) = NameOf(requirement)
    /\ VerbOf(entitlement) = READ /\ VerbOf(requirement) = ALL

\* C10: for structured strings with equal resource type and a matching
\* verb, the match succeeds whenever either name is empty or "*", and
\* otherwise only when the two names are equal.
C10_NameBidirectional ==
    (/\ Matched
     /\ Structured(entitlement) /\ Structured(requirement)
     /\ TypeOf(entitlement) = TypeOf(requirement)
     /\ VerbCovers(entitlement, requirement))
      => (result <=> \/ WildName(entitlement)
                     \/ WildName(requirement)
                     \/ NameOf(entitlement) = NameOf(requirement))

\* A held grant for one named instance matched by a requirement whose name
\* is the wildcard "*".
C10_Witness ==
    /\ Matched /\ result
    /\ Structured(entitlement) /\ Structured(requirement)
    /\ ~WildName(entitlement)
    /\ NameOf(requirement) = STAR
    /\ VerbOf(entitlement) = VerbOf(requirement)

\* the short, medium and explicit-wildcard spellings of resource r, verb v
ShortForm(r, v)  == r \o <<COLON>> \o v
MediumForm(r, v) == r \o <<COLON, COLON>> \o v
WildForm(r, v)   == r \o <<COLON>> \o STAR \o <<COLON>> \o v
Forms(r, v) == {ShortForm(r, v), MediumForm(r, v), WildForm(r, v)}
\* s is one of the three spellings of some resource and verb
IsForm(s) == Structured(s) /\ WildName(s)
FormsOf(s) == Forms(TypeOf(s), VerbOf(s))

\* C11: r:v, r::v and r:*:v are interchangeable: with any of them in the
\* held position the match against a required string gives the same result,
\* and with any of them in the required position the match of a held string
\* gives the same result.
C11_FormsInterchangeable ==
    Matched =>
      /\ IsForm(entitlement) =>
            \A f \in FormsOf(entitlement) :
                entitlementMatches(f, requirement) = result
      /\ IsForm(requirement) =>
            \A f \in FormsOf(requirement) :
                entitlementMatches(entitlement, f) = result

\* A short-form "all" grant matched against a long-form requirement that
\* names one instance.
C11_Witness ==
    /\ Matched /\ result
    /\ NumFields(entitlement) = 2 /\ TypeOf(entitlement) # EMPTY
    /\ VerbOf(entitlement) = ALL
    /\ NumFields(requirement) = 3 /\ ~WildName(requirement)
    /\ VerbOf(requirement) = READ

\* the strings of the default-scheme list of the working entitlements of a
\* resource check: the caller's, the anonymous ones, and the identity when
\* read is granted by default
WorkingStrings ==
    LET l == Working(IdentityEntitlements(CallerEntitlements)).m[ec.defaultScheme].s
    IN  {l[i] : i \in 1..Len(l)}

ReadOrAll(h) == VerbOf(h) = READ \/ VerbOf(h) = ALL

\* C20 as claimed: when VerifyResourceEntitlements(r, n, E, R) returns true,
\* the working default-scheme list holds a string that equals r:n:read or is
\* structured with type r, verb read or all, and a name that is empty, "*"
\* or n.
C20_GrantProvesRead ==
    Granted =>
      \E h \in WorkingStrings :
          \/ h = Identity
          \/ /\ Structured(h) /\ TypeOf(h) = resource /\ ReadOrAll(h)
             /\ (WildName(h) \/ NameOf(h) = resourceName)

\* C20 amended: when VerifyResourceEntitlements(r, n, E, R) returns true,
\* the working default-scheme list holds a string that equals r:n:read or is
\* structured with type r, verb read or all, and a name that is empty, "*"
\* or n, or any name when n itself is empty or "*".
C20_GrantProvesReadOrAnyInstance ==
    Granted =>
      \E h \in WorkingStrings :
          \/ h = Identity
          \/ /\ Structured(h) /\ TypeOf(h) = resource /\ ReadOrAll(h)
             /\ \/ WildName(h)
                \/ NameOf(h) = resourceName
                \/ resourceName = EMPTY \/ resourceName = STAR

\* A grant for the instance the caller holds read access to by name, with
\* the flag off and no anonymous entitlements.
C20_Witness ==
    /\ Granted /\ ~ec.grantReadyByDefault
    /\ Len(ec.anonymousEntitlements) = 0
    /\ resourceName = <<"f">>
    /\ \E h \in WorkingStrings : NameOf(h) = resourceName

----------------------------------------------------------------------------
(* Holding more, and empty requirement entries *)

\* ev2 extends ev: every scheme key of ev is a key of ev2, and every string
\* held under a key in ev is held under that key in ev2
Extends(ev2, ev) ==
    \A k \in Schemes :
        ev.m[k].present =>
          /\ ev2.m[k].present
          /\ \A i \in 1..Len(ev.m[k].s) : Contains(ev2.m[k].s, ev.m[k].s[i])

\* every string of the list a is a string of the list a2
ListExtends(a2, a) == \A i \in 1..Len(a) : Contains(a2, a[i])

\* the checker of this state with another anonymous list
WithAnonymous(a) ==
    NewEntitlementsChecker(a, ec.defaultScheme, ec.grantReadyByDefault)

\* what the operation called in this state does on checker c for the
\* entitlements ev and the caller's requirements
DecisionOf(c, ev, ord) ==
    LET e == LayoutMap(<<>>, ev, "nil")
        r == LayoutRequirements(e.mem, CallerRequirements, "nil")
        d == IF op = "VerifyEntitlements"
             THEN VerifyEntitlements(r.mem, c, e.ret, r.ret, ord)
             ELSE VerifyResourceEntitlements(r.mem, c, resource, resourceName,
                                             e.ret, r.ret, ord)
    IN  [outcome |-> IF d.panic THEN "panic" ELSE "return", result |-> d.ret]

GrantedBy(c, ev) ==
    \A ord \in Orders :
        DecisionOf(c, ev, ord) = [outcome |-> "return", result |-> TRUE]

\* C21: when VerifyEntitlements(E, R) or VerifyResourceEntitlements(r, n, E,
\* R) returns true, the same call returns true for every E' that extends E,
\* and on every checker whose anonymous list extends the anonymous list.
C21_HoldingMoreNeverLoses ==
    (op # "none" /\ outcome = "return" /\ result) =>
        /\ \A ev \in PlainEntitlements :
              Extends(ev, CallerEntitlements) => GrantedBy(ec, ev)
        /\ \A a \in PlainAnonLists :
              ListExtends(a, ec.anonymousEntitlements)
                => GrantedBy(WithAnonymous(a), CallerEntitlements)

\* a requirement entry that is an empty map
EmptyEntry(entry) == ~entry.nil /\ NoKeys(entry)

HasEmptyEntry ==
    \E i \in 1..Len(CallerRequirements.es) : EmptyEntry(CallerRequirements.es[i])

\* the working entitlements hold, under the default scheme, a string that
\* matches the identity of the resource instance
IdentityHeld ==
    /\ working.m[ec.defaultScheme].present
    /\ hasEntitlement(working.m[ec.defaultScheme].s, Identity)

\* C22: when R contains an entry that is an empty map, VerifyEntitlements(E,
\* R) returns true for every E, while VerifyResourceEntitlements(r, n, E, R)
\* returns true only when the identity r:n:read is matched under the default
\* scheme, as the entry has become {defaultScheme: [identity]}.
C22_EmptyEntrySatisfied ==
    /\ (op = "VerifyEntitlements" /\ HasEmptyEntry)
          => (outcome = "return" /\ result)
    /\ (op = "VerifyResourceEntitlements" /\ HasEmptyEntry /\ outcome = "return")
          => (result <=> IdentityHeld)
====
